---- MODULE Spec2Model ----
(***************************************************************************)
(* next-form-action: the handler wrapper (createAction), the signal        *)
(* exceptions (ActionResponse / ActionError / ActionSuccess) and the       *)
(* client state binding (useAction).                                       *)
(*                                                                         *)
(* JavaScript values are represented as follows.                           *)
(*  - An object is a function from its keys to their values; a key whose   *)
(*    value is undefined is left out of the domain, so two objects are     *)
(*    structurally equal exactly when the functions are equal.             *)
(*  - A value that may be undefined is passed around as an option: <<>>    *)
(*    for undefined, <<v>> for the value v.                                *)
(*  - Object identity is a "ref" number carried next to the content.       *)
(*  - A string whose characters the code inspects (digest) is a sequence   *)
(*    of one-character strings.                                            *)
(***************************************************************************)
EXTENDS Integers, Sequences, FiniteSets, TLC

VARIABLES
  \* the wrapped handler called directly
  actionCall, lastCall, prevFailure,
  \* useAction: what the host reducer returns, and the three callback refs
  state, isPending, onSuccessCallbackRef, onErrorCallbackRef, onSubmitCallbackRef,
  \* the executeCallback() calls suspended at an await, counted by branch, and
  \* the wrappedDispatch() calls suspended at the await, counted by argument
  executing, submitting,
  \* the host: a committed render whose effect has not run yet, the component
  \* still mounted, the action in flight and the dispatches queued behind it
  effectPending, mounted, hostRunning, hostQueue, nextRef,
  \* what has happened so far; lastSettled is the submission that completed last
  registrations, fired, dispatched, lastEffect, lastSettled, successDone,
  \* the publish wizard (scripts/cli.js): the position in publishAction, its
  \* local variables, the commands run and the prompts answered so far, and
  \* the value publishAction returned
  pc, locals, commands, prompts, returned,
  \* useExperimentalFormAction (use-stable-form-action.tsx): the calls of
  \* enhancedDispatch waiting for the submit callback, the handlers started
  \* and not settled, the last writer of the state cell, the calls of resetForm
  suspended, transitions, lastSet, resets,
  \* the accumulating-list revision of useFormAction (actions.ts, second
  \* hook): the two lists of callbacks, the runs of executeCallbacks that are
  \* waiting for a callback, and the run that ended last
  successCallbacks, errorCallbacks, runs, lastRun

actionVars == <<actionCall, lastCall, prevFailure>>

refVars == <<onSuccessCallbackRef, onErrorCallbackRef, onSubmitCallbackRef>>

hostVars == <<state, isPending, effectPending, mounted, hostRunning, hostQueue, nextRef>>

bindingVars == <<refVars, hostVars, executing, submitting,
                 registrations, fired, dispatched, lastEffect, lastSettled, successDone>>

cliVars == <<pc, locals, commands, prompts, returned>>

listVars == <<successCallbacks, errorCallbacks, runs, lastRun>>

variantVars == <<suspended, transitions, lastSet, resets, listVars>>

vars == <<actionVars, bindingVars, cliVars, variantVars>>

-----------------------------------------------------------------------------
(* Property reads and object literals *)

\* o.k : <<>> when the key is missing (undefined), <<value>> otherwise
Get(o, k) == IF k \in DOMAIN o THEN <<o[k]>> ELSE <<>>

\* { k1: v1, ... } from options: keys holding undefined are dropped
ObjectOf(opts) == [k \in {j \in DOMAIN opts : opts[j] # <<>>} |-> opts[k][1]]

NoParams == [k \in {} |-> TRUE]

-----------------------------------------------------------------------------
(* Signal exceptions *)

\* super(message): Error stores String(message) as the own property, and
\* leaves Error.prototype.message ('') to be read when message is undefined
ErrorMessage(message) == IF message = <<>> THEN "" ELSE message[1]

\* a constructor that does not keep the payload
ActionResponseNoPayload(class, message, success, payload, params, ref) ==
  [type |-> "object", ref |-> ref, class |-> class,
   props |-> ObjectOf([message    |-> <<ErrorMessage(message)>>,
                       success    |-> <<success>>,
                       formErrors |-> Get(params, "formErrors"),
                       extra      |-> Get(params, "extra"),
                       redirect   |-> Get(params, "redirect"),
                       refresh    |-> Get(params, "refresh")])]

\* constructor(message, success, payload, params = {})
ActionResponse(class, message, success, payload, params, ref) ==
  [type |-> "object", ref |-> ref, class |-> class,
   props |-> ObjectOf([message    |-> <<ErrorMessage(message)>>,
                       payload    |-> <<payload>>,
                       success    |-> <<success>>,
                       formErrors |-> Get(params, "formErrors"),
                       extra      |-> Get(params, "extra"),
                       redirect   |-> Get(params, "redirect"),
                       refresh    |-> Get(params, "refresh")])]

ActionError(message, payload, params, ref) ==
  ActionResponse("ActionError", message, FALSE, payload, params, ref)

ActionSuccess(message, payload, params, ref) ==
  ActionResponse("ActionSuccess", message, TRUE, payload, params, ref)

\* a conversion that writes the fields into the record the call received
\* (identity 1) and returns that object
toResponseInPlace(this, ref) ==
  [ref |-> 1,
   f   |-> ObjectOf([payload    |-> Get(this.props, "payload"),
                     success    |-> Get(this.props, "success"),
                     message    |-> Get(this.props, "message"),
                     formErrors |-> Get(this.props, "formErrors"),
                     extra      |-> Get(this.props, "extra"),
                     redirect   |-> Get(this.props, "redirect"),
                     refresh    |-> Get(this.props, "refresh")])]

\* a conversion that stamps every record it builds with a number of its own
toResponseStamped(this, ref) ==
  [ref |-> ref,
   f   |-> ObjectOf([payload    |-> Get(this.props, "payload"),
                     success    |-> Get(this.props, "success"),
                     message    |-> Get(this.props, "message"),
                     formErrors |-> Get(this.props, "formErrors"),
                     extra      |-> <<[stamp |-> ref]>>,
                     redirect   |-> Get(this.props, "redirect"),
                     refresh    |-> Get(this.props, "refresh")])]

\* a conversion that leaves the success flag out of the record
toResponseWithoutSuccess(this, ref) ==
  [ref |-> ref,
   f   |-> ObjectOf([payload    |-> Get(this.props, "payload"),
                     message    |-> Get(this.props, "message"),
                     formErrors |-> Get(this.props, "formErrors"),
                     extra      |-> Get(this.props, "extra"),
                     redirect   |-> Get(this.props, "redirect"),
                     refresh    |-> Get(this.props, "refresh")])]

\* toResponse(): a new object literal built from the exception's fields
toResponse(this, ref) ==
  [ref |-> ref,
   f   |-> ObjectOf([payload    |-> Get(this.props, "payload"),
                     success    |-> Get(this.props, "success"),
                     message    |-> Get(this.props, "message"),
                     formErrors |-> Get(this.props, "formErrors"),
                     extra      |-> Get(this.props, "extra"),
                     redirect   |-> Get(this.props, "redirect"),
                     refresh    |-> Get(this.props, "refresh")])]

\* error instanceof ActionResponse
InstanceOfActionResponse(e) ==
  /\ e.type = "object"
  /\ e.class \in {"ActionResponse", "ActionError", "ActionSuccess"}

-----------------------------------------------------------------------------
(* createActionState *)

\* { ...params, payload }
createActionState(payload, params, ref) ==
  [ref |-> ref,
   f   |-> [k \in (DOMAIN params) \cup {"payload"} |->
              IF k = "payload" THEN payload ELSE params[k]]]

-----------------------------------------------------------------------------
(* createAction *)

\* String.prototype.startsWith
StartsWith(s, prefix) ==
  /\ Len(s) >= Len(prefix)
  /\ SubSeq(s, 1, Len(prefix)) = prefix

NextPrefix == <<"N", "E", "X", "T", "_">>

\* a check that looks for the digest key only
HasDigest(e) == e.type = "object" /\ "digest" \in DOMAIN e.props

\* a check that accepts every string digest beginning with NEXT, with or
\* without the underscore
IsNextSystemErrorShortPrefix(e) ==
  /\ e.type = "object"
  /\ "digest" \in DOMAIN e.props
  /\ e.props.digest.t = "string"
  /\ StartsWith(e.props.digest.chars, <<"N", "E", "X", "T">>)

\* error && typeof error === 'object' && 'digest' in error
\*   && typeof error.digest === 'string' && error.digest.startsWith('NEXT_')
IsNextSystemError(e) ==
  /\ e.type = "object"
  /\ "digest" \in DOMAIN e.props
  /\ e.props.digest.t = "string"
  /\ StartsWith(e.props.digest.chars, NextPrefix)

UnexpectedErrorMessage == "An unexpected error occurred. Please try again."

\* `Error in form action "${context}":`
ErrorLabel(context) == "Error in form action \"" \o context \o "\":"

\* the injected signal functions: throw new ActionError / ActionSuccess
error(message, params, formData, ref) == ActionError(message, formData, params, ref)

success(message, params, formData, ref) == ActionSuccess(message, formData, params, ref)

\* what leaves the handler when it does not resolve: the exception built by a
\* signal function it called, or the value it threw itself
Thrown(outcome, formData, ref) ==
  CASE outcome.kind = "error"   -> error(outcome.message, outcome.params, formData, ref)
    [] outcome.kind = "success" -> success(outcome.message, outcome.params, formData, ref)
    [] outcome.kind = "throw"   -> outcome.value

\* a wrapper that fills in a default success flag: { success: false, ...value }
ResolvedDefaulted(value) ==
  [kind  |-> "resolved",
   value |-> [value EXCEPT !.f = [k \in (DOMAIN value.f) \cup {"success"} |->
                                    IF k \in DOMAIN value.f THEN value.f[k] ELSE FALSE]],
   log   |-> <<>>]

\* return await handler(...)
Resolved(value) == [kind |-> "resolved", value |-> value, log |-> <<>>]

\* a wrapper that throws a copy of the caught object instead of the object
RethrownCopy(e) == [kind |-> "rejected", error |-> [e EXCEPT !.ref = e.ref + 100], log |-> <<>>]

\* throw error
Rethrown(e) == [kind |-> "rejected", error |-> e, log |-> <<>>]

\* a wrapper that forgets to log
UnexpectedUnlogged(context, e, formData, ref) ==
  [kind  |-> "resolved",
   value |-> toResponse(ActionError(<<UnexpectedErrorMessage>>, formData, NoParams, ref), ref + 1),
   log   |-> <<>>]

\* a wrapper that passes the thrown error's own message on to the client
UnexpectedLeaking(context, e, formData, ref) ==
  [kind  |-> "resolved",
   value |-> toResponse(ActionError(IF e.type = "object" THEN Get(e.props, "message")
                                    ELSE <<UnexpectedErrorMessage>>,
                                    formData, NoParams, ref), ref + 1),
   log   |-> << <<ErrorLabel(context), e>> >>]

\* console.error(label, error); return new ActionError(msg, formData).toResponse()
Unexpected(context, e, formData, ref) ==
  [kind  |-> "resolved",
   value |-> toResponse(ActionError(<<UnexpectedErrorMessage>>, formData, NoParams, ref), ref + 1),
   log   |-> << <<ErrorLabel(context), e>> >>]

\* the catch clause
Caught(context, e, formData, ref) ==
  IF InstanceOfActionResponse(e) THEN Resolved(toResponse(e, ref + 1))
  ELSE IF IsNextSystemError(e) THEN Rethrown(e)
  ELSE Unexpected(context, e, formData, ref)

\* a wrapper whose signal functions return to the handler, which then runs on
\* to its own return statement
createActionSignalReturns(context, prevState, formData, outcome, ref) ==
  IF outcome.kind = "return"
  THEN Resolved(outcome.value)
  ELSE IF outcome.kind \in {"error", "success"}
  THEN Resolved(outcome.after)
  ELSE Caught(context, Thrown(outcome, formData, ref), formData, ref)

\* the function createAction returns, applied to (state, formData), for a
\* handler that settles with `outcome`; ref is the first unused object identity
createAction(context, prevState, formData, outcome, ref) ==
  IF outcome.kind = "return"
  THEN Resolved(outcome.value)
  ELSE Caught(context, Thrown(outcome, formData, ref), formData, ref)

-----------------------------------------------------------------------------
(* Inputs *)

Contexts == {"login", "user-registration"}

FormDatas == {"fdA", "fdB"}

\* message: string | undefined
Messages == {<<>>, <<"">>, <<"Please fix the errors below">>}

ParamSets ==
  {NoParams,
   [redirect |-> "/x"],
   [payload |-> "fdOther", formErrors |-> [email |-> <<"Email is required">>],
    extra |-> [userId |-> 123], redirect |-> "/dashboard", refresh |-> TRUE]}

JsString(chars) == [t |-> "string", chars |-> chars]

JsNumber(n) == [t |-> "number", n |-> n]

Digests ==
  {JsString(<<"N", "E", "X", "T", "_", "R", "E", "D", "I", "R", "E", "C", "T">>),
   JsString(<<"N", "E", "X", "T", "_">>),
   JsString(<<"N", "E", "X", "T">>),
   JsString(<<"n", "e", "x", "t", "_", "r">>),
   JsString(<<"D", "Y", "N", "A", "M", "I", "C", "_", "S", "E", "R", "V", "E", "R">>),
   JsNumber(404)}

\* an object the handler built and threw, with an own property digest
WithDigest(o, d) ==
  [o EXCEPT !.props = [k \in (DOMAIN o.props) \cup {"digest"} |->
                         IF k = "digest" THEN d ELSE o.props[k]]]

PlainError == [type |-> "object", ref |-> 2, class |-> "Error", props |-> [message |-> "DB down"]]

ThrownValues ==
  {[type |-> "null"], [type |-> "undefined"], [type |-> "string", v |-> "DB down"], PlainError}
  \cup {WithDigest(PlainError, d) : d \in Digests}
  \cup {ActionError(<<"manual">>, "fdOther", NoParams, 2),
        WithDigest(ActionSuccess(<<"manual">>, "fdOther", NoParams, 2), JsString(NextPrefix))}

\* the records a binding can be constructed with: the default one, or an
\* explicit actionState argument
InitialStates ==
  {createActionState("fdEmpty", NoParams, 1),
   [ref |-> 1, f |-> [success |-> TRUE, message |-> "saved", redirect |-> "/x"]]}

\* what a handler can resolve to: the state it was given, or a record it built
ReturnValues(prevState) ==
  {prevState,
   [ref |-> 3, f |-> [success |-> TRUE, message |-> "done", refresh |-> TRUE]],
   [ref |-> 3, f |-> [message |-> "partial"]]}

\* what the statements that follow a signal call in the handler would return,
\* were they ever reached
AfterSignal == [ref |-> 4, f |-> [success |-> TRUE, message |-> "after"]]

Outcomes(prevState) ==
  {[kind |-> "return", value |-> v] : v \in ReturnValues(prevState)}
  \cup {[kind |-> k, message |-> m, params |-> p, after |-> AfterSignal] :
          k \in {"error", "success"}, m \in Messages, p \in ParamSets}
  \cup {[kind |-> "throw", value |-> v] : v \in ThrownValues}

-----------------------------------------------------------------------------
(* The wrapped handler called directly, as the tests call it *)

Idle == [active |-> FALSE]

NoCall == [made |-> FALSE]

\* a thrown value that is a signal exception
SignalException(v) ==
  v.type = "object" /\ v.class \in {"ActionResponse", "ActionError", "ActionSuccess"}

\* a thrown value that carries the control marker: an object with a string
\* digest whose first five characters are N E X T _
ControlMarked(v) ==
  /\ v.type = "object"
  /\ "digest" \in DOMAIN v.props
  /\ v.props.digest.t = "string"
  /\ Len(v.props.digest.chars) >= 5
  /\ \A i \in 1..5 : v.props.digest.chars[i] = <<"N", "E", "X", "T", "_">>[i]

\* the handler threw a value that is neither a signal nor control-marked
IsUnexpected(call) ==
  /\ call.made
  /\ call.outcome.kind = "throw"
  /\ ~SignalException(call.outcome.value)
  /\ ~ControlMarked(call.outcome.value)

Null == [null |-> TRUE]

NoEffect == [ran |-> FALSE]

\* useAction(action, actionState): the first render
\* publishAction before it is called: none of its locals is assigned yet and
\* the fields hold the values they are first given
NoLocals ==
  [private |-> FALSE, gitStatusClean |-> TRUE, onMainBranch |-> TRUE,
   allGood |-> TRUE, check |-> 0]

\* the publish wizard before publishAction is called
InitWizard ==
  /\ pc = "publishAction"
  /\ locals = NoLocals
  /\ commands = <<>>
  /\ prompts = <<>>
  /\ returned = <<>>

\* the state cell has been written by nothing but its initialisation
NotSet == [by |-> "useState"]

\* no run of executeCallbacks has ended yet
NoRun == [ended |-> FALSE]

\* the hook variants with no dispatch made and no callback registered
InitVariant ==
  /\ suspended = <<>>
  /\ transitions = <<>>
  /\ lastSet = NotSet
  /\ resets = 0
  /\ successCallbacks = <<>>
  /\ errorCallbacks = <<>>
  /\ runs = <<>>
  /\ lastRun = NoRun

InitBinding(actionState) ==
  /\ InitWizard
  /\ InitVariant
  /\ state = actionState
  /\ isPending = FALSE
  /\ onSuccessCallbackRef = Null
  /\ onErrorCallbackRef = Null
  /\ onSubmitCallbackRef = Null
  /\ executing = [success |-> 0, error |-> 0]
  /\ submitting = [formData \in FormDatas |-> 0]
  /\ effectPending = TRUE
  /\ mounted = TRUE
  /\ hostRunning = Idle
  /\ hostQueue = <<>>
  /\ nextRef = 10
  /\ registrations = 0
  /\ fired = [success |-> 0, error |-> 0, submit |-> 0]
  /\ dispatched = 0
  /\ lastEffect = NoEffect
  /\ lastSettled = NoCall
  /\ successDone = FALSE

InitAction ==
  /\ actionCall = Idle
  /\ lastCall = NoCall
  /\ prevFailure = NoCall
  /\ InitBinding(createActionState("fdEmpty", NoParams, 1))

\* a wrapper that hands the handler a new default record instead of the state
InvokeActionDefaultState(context, prevState, formData) ==
  /\ actionCall = Idle
  /\ actionCall' = [active |-> TRUE, context |-> context, state |-> prevState,
                    formData |-> formData,
                    handlerArgs |-> <<createActionState("fdEmpty", NoParams, 1), formData>>]
  /\ UNCHANGED <<lastCall, prevFailure, bindingVars, cliVars, variantVars>>

\* wrapped(state, formData): the handler is invoked with the same arguments
InvokeAction(context, prevState, formData) ==
  /\ actionCall = Idle
  /\ actionCall' = [active |-> TRUE, context |-> context, state |-> prevState,
                    formData |-> formData, handlerArgs |-> <<prevState, formData>>]
  /\ UNCHANGED <<lastCall, prevFailure, bindingVars, cliVars, variantVars>>

\* the handler settles and the wrapper's promise settles with it
SettleAction(outcome) ==
  /\ actionCall # Idle
  /\ lastCall' = [made |-> TRUE, context |-> actionCall.context, state |-> actionCall.state,
                  formData |-> actionCall.formData, outcome |-> outcome,
                  result |-> createAction(actionCall.context, actionCall.state,
                                          actionCall.formData, outcome, 10)]
  /\ prevFailure' = IF IsUnexpected(lastCall)
                    THEN [made |-> TRUE, formData |-> lastCall.formData,
                          error |-> lastCall.outcome.value, value |-> lastCall.result.value]
                    ELSE prevFailure
  /\ actionCall' = Idle
  /\ UNCHANGED <<bindingVars, cliVars, variantVars>>

\* formData.get('email'), formData.get('password'): '' stands for a missing
\* or empty field
Emails == {"", "ann@example.com"}

Passwords == {"", "secret"}

\* the try block of the quick-start loginAction: authenticate(email, password)
\* and then formActionSuccess('Login successful!', { redirect: '/dashboard' })
LoginTry(authThrows) ==
  IF authThrows
  THEN [kind |-> "throw", value |-> PlainError]
  ELSE [kind |-> "success", message |-> <<"Login successful!">>,
        params |-> [redirect |-> "/dashboard"], after |-> AfterSignal]

\* the quick-start loginAction handler: the validation, then the try block,
\* whose catch clause receives whatever the block throws, the success signal
\* included, and calls formActionError('Invalid credentials')
loginAction(email, password, authThrows) ==
  LET input == [email |-> email, password |-> password, authThrows |-> authThrows] IN
  IF email = "" \/ password = ""
  THEN [kind |-> "error", message |-> <<"Email and password are required">>,
        params |-> NoParams, after |-> AfterSignal, login |-> input]
  ELSE IF LoginTry(authThrows).kind \in {"throw", "error", "success"}
  THEN [kind |-> "error", message |-> <<"Invalid credentials">>,
        params |-> NoParams, after |-> AfterSignal, login |-> input]
  ELSE [kind |-> "return", value |-> [ref |-> 0, f |-> NoParams], login |-> input]

NextAction ==
  \/ \E c \in Contexts, s \in InitialStates, fd \in FormDatas : InvokeAction(c, s, fd)
  \/ /\ actionCall # Idle
     /\ \E o \in Outcomes(actionCall.state) : SettleAction(o)
  \/ /\ actionCall # Idle
     /\ actionCall.context = "login"
     /\ \E email \in Emails, password \in Passwords, authThrows \in BOOLEAN :
          SettleAction(loginAction(email, password, authThrows))

SpecAction == InitAction /\ [][NextAction]_vars

-----------------------------------------------------------------------------
(* useAction *)

MaxDispatch == 2

MaxReg == 2

\* the functions a component passes to onSuccess, onError and onSubmit; each
\* returns a promise, which a later task fulfils or rejects
Callbacks == {"c1", "c2"}

\* a string read in a condition: undefined and '' are falsy
Truthy(opt) == opt # <<>> /\ opt # <<"">>

\* onSuccessCallbackRef.current = callback
onSuccess(callback) ==
  /\ mounted
  /\ registrations < MaxReg
  /\ registrations' = registrations + 1
  /\ onSuccessCallbackRef' = [fn |-> callback]
  /\ fired' = [fired EXCEPT !.success = 0]
  /\ successDone' = FALSE
  /\ UNCHANGED <<variantVars, cliVars, actionVars, hostVars, onErrorCallbackRef, onSubmitCallbackRef,
                 executing, submitting, dispatched, lastEffect, lastSettled>>

\* onErrorCallbackRef.current = callback
onError(callback) ==
  /\ mounted
  /\ registrations < MaxReg
  /\ registrations' = registrations + 1
  /\ onErrorCallbackRef' = [fn |-> callback]
  /\ fired' = [fired EXCEPT !.error = 0]
  /\ UNCHANGED <<variantVars, cliVars, actionVars, hostVars, onSuccessCallbackRef, onSubmitCallbackRef,
                 executing, submitting, dispatched, lastEffect, lastSettled, successDone>>

\* onSubmitCallbackRef.current = callback
onSubmit(callback) ==
  /\ mounted
  /\ registrations < MaxReg
  /\ registrations' = registrations + 1
  /\ onSubmitCallbackRef' = [fn |-> callback]
  /\ fired' = [fired EXCEPT !.submit = 0]
  /\ UNCHANGED <<variantVars, cliVars, actionVars, hostVars, onSuccessCallbackRef, onErrorCallbackRef,
                 executing, submitting, dispatched, lastEffect, lastSettled, successDone>>

\* a ref left holding its callback after the callback has run
Kept(current) == current

\* xCallbackRef.current = null
Consumed(current) == Null

\* an effect that calls the error callback where the success one is due
EffectCallSwapped(st, successRef, errorRef) ==
  IF Get(st.f, "success") = <<TRUE>> /\ errorRef # Null
  THEN << [slot |-> "error", cb |-> errorRef, arg |-> st] >>
  ELSE IF Get(st.f, "success") = <<FALSE>> /\ Truthy(Get(st.f, "message")) /\ successRef # Null
  THEN << [slot |-> "success", cb |-> successRef, arg |-> st] >>
  ELSE <<>>

\* an effect that calls the error callback for every failed state, with or
\* without a message
EffectCallAnyMessage(st, successRef, errorRef) ==
  IF Get(st.f, "success") = <<TRUE>> /\ successRef # Null
  THEN << [slot |-> "success", cb |-> successRef, arg |-> st] >>
  ELSE IF Get(st.f, "success") = <<FALSE>> /\ errorRef # Null
  THEN << [slot |-> "error", cb |-> errorRef, arg |-> st] >>
  ELSE <<>>

\* executeCallback(), up to its await: the callback it invokes, if any
EffectCall(st, successRef, errorRef) ==
  IF Get(st.f, "success") = <<TRUE>> /\ successRef # Null
  THEN << [slot |-> "success", cb |-> successRef, arg |-> st] >>
  ELSE IF Get(st.f, "success") = <<FALSE>> /\ Truthy(Get(st.f, "message")) /\ errorRef # Null
  THEN << [slot |-> "error", cb |-> errorRef, arg |-> st] >>
  ELSE <<>>

\* an effect that refreshes the view before it navigates
NavigationRefreshFirst(st) ==
  (IF Get(st.f, "refresh") = <<TRUE>> THEN << [op |-> "refresh"] >> ELSE <<>>)
  \o (IF Truthy(Get(st.f, "redirect")) THEN << [op |-> "push", path |-> st.f.redirect] >> ELSE <<>>)

\* if (state.redirect) router.push(state.redirect); if (state.refresh) router.refresh()
Navigation(st) ==
  (IF Truthy(Get(st.f, "redirect")) THEN << [op |-> "push", path |-> st.f.redirect] >> ELSE <<>>)
  \o (IF Get(st.f, "refresh") = <<TRUE>> THEN << [op |-> "refresh"] >> ELSE <<>>)

\* the calls of the callback registered last in each slot, counted
Fired(calls) ==
  IF calls = <<>> THEN fired ELSE [fired EXCEPT ![calls[1].slot] = @ + 1]

\* the effect on [state, router]: it runs after the first render and after
\* every render with a new state object
RunEffect ==
  /\ mounted
  /\ effectPending
  /\ LET calls == EffectCall(state, onSuccessCallbackRef, onErrorCallbackRef) IN
       /\ fired' = Fired(calls)
       /\ executing' = IF calls = <<>> THEN executing
                       ELSE [executing EXCEPT ![calls[1].slot] = @ + 1]
       /\ lastEffect' = [ran |-> TRUE, state |-> state, calls |-> calls,
                         navigation |-> Navigation(state)]
  /\ effectPending' = FALSE
  /\ UNCHANGED <<variantVars, cliVars, actionVars, refVars, state, isPending, mounted, hostRunning, hostQueue,
                 nextRef, submitting, registrations, dispatched, lastSettled, successDone>>

\* executeCallback() after its await: the ref is cleared when the callback
\* completed, and left alone when it rejected
ExecuteCallbackResumes(slot, rejected) ==
  /\ executing[slot] > 0
  /\ executing' = [executing EXCEPT ![slot] = @ - 1]
  /\ IF rejected
     THEN UNCHANGED <<refVars, successDone>>
     ELSE IF slot = "success"
     THEN /\ onSuccessCallbackRef' = Consumed(onSuccessCallbackRef)
          /\ successDone' = TRUE
          /\ UNCHANGED <<onErrorCallbackRef, onSubmitCallbackRef>>
     ELSE /\ onErrorCallbackRef' = Consumed(onErrorCallbackRef)
          /\ UNCHANGED <<onSuccessCallbackRef, onSubmitCallbackRef, successDone>>
  /\ UNCHANGED <<variantVars, cliVars, actionVars, hostVars, submitting, registrations, fired, dispatched,
                 lastEffect, lastSettled>>

\* a dispatch that never reaches the host reducer
HostDispatchDropped(formData) == UNCHANGED <<isPending, hostRunning, hostQueue>>

\* the host reducer's dispatch: the action starts at once when none is in
\* flight, and waits its turn otherwise
HostDispatch(formData) ==
  /\ isPending' = TRUE
  /\ IF hostRunning = Idle
     THEN /\ hostRunning' = [active |-> TRUE, formData |-> formData, prevState |-> state]
          /\ UNCHANGED hostQueue
     ELSE /\ hostQueue' = Append(hostQueue, formData)
          /\ UNCHANGED hostRunning

\* wrappedDispatch(formData), up to its await or, with no submit callback, to its end
wrappedDispatch(formData) ==
  /\ mounted
  /\ ~effectPending
  /\ dispatched < MaxDispatch
  /\ dispatched' = dispatched + 1
  /\ IF onSubmitCallbackRef = Null
     THEN /\ HostDispatch(formData)
          /\ UNCHANGED <<fired, submitting>>
     ELSE LET calls == << [slot |-> "submit", cb |-> onSubmitCallbackRef, arg |-> formData] >> IN
          /\ fired' = Fired(calls)
          /\ submitting' = [submitting EXCEPT ![formData] = @ + 1]
          /\ UNCHANGED <<isPending, hostRunning, hostQueue>>
  /\ UNCHANGED <<variantVars, cliVars, actionVars, refVars, state, effectPending, mounted, nextRef,
                 executing, registrations, lastEffect, lastSettled, successDone>>

\* a wrappedDispatch that goes on after its await whether the submit callback
\* completed or rejected
WrappedDispatchResumesAnyway(formData, rejected) ==
  /\ submitting[formData] > 0
  /\ submitting' = [submitting EXCEPT ![formData] = @ - 1]
  /\ onSubmitCallbackRef' = Consumed(onSubmitCallbackRef)
  /\ IF mounted
     THEN HostDispatch(formData)
     ELSE UNCHANGED <<isPending, hostRunning, hostQueue>>
  /\ UNCHANGED <<variantVars, cliVars, actionVars, onSuccessCallbackRef, onErrorCallbackRef, state, effectPending,
                 mounted, nextRef, executing, registrations, fired, dispatched, lastEffect,
                 lastSettled, successDone>>

\* wrappedDispatch(formData) after its await
WrappedDispatchResumes(formData, rejected) ==
  /\ submitting[formData] > 0
  /\ submitting' = [submitting EXCEPT ![formData] = @ - 1]
  /\ IF rejected
     THEN UNCHANGED <<onSubmitCallbackRef, isPending, hostRunning, hostQueue>>
     ELSE /\ onSubmitCallbackRef' = Consumed(onSubmitCallbackRef)
          /\ IF mounted
             THEN HostDispatch(formData)
             ELSE UNCHANGED <<isPending, hostRunning, hostQueue>>
  /\ UNCHANGED <<variantVars, cliVars, actionVars, onSuccessCallbackRef, onErrorCallbackRef, state, effectPending,
                 mounted, nextRef, executing, registrations, fired, dispatched, lastEffect,
                 lastSettled, successDone>>

\* what the handler of a submission can do
HandlerOutcomes(prevState, ref) ==
  {[kind |-> "return", value |-> prevState],
   [kind |-> "return", value |-> [ref |-> ref, f |-> [success |-> TRUE, message |-> "done"]]],
   [kind |-> "success", message |-> <<"ok">>, params |-> [redirect |-> "/x", refresh |-> TRUE],
    after |-> AfterSignal],
   [kind |-> "error", message |-> <<"Please fix the errors below">>, params |-> NoParams,
    after |-> AfterSignal],
   [kind |-> "error", message |-> <<>>, params |-> NoParams, after |-> AfterSignal],
   [kind |-> "throw", value |-> PlainError],
   [kind |-> "throw", value |-> WithDigest(PlainError, JsString(NextPrefix))]}

\* the action in flight settles: its record becomes the state and, when it is
\* a new object, a render is committed; a rejection is thrown into the render
\* and takes the component down; the next queued action starts
HandlerSettles(outcome) ==
  /\ hostRunning # Idle
  /\ ~effectPending
  /\ LET result == createAction("login", hostRunning.prevState, hostRunning.formData,
                                outcome, nextRef)
     IN IF result.kind = "resolved"
        THEN /\ state' = result.value
             /\ effectPending' = (result.value.ref # state.ref)
             /\ IF hostQueue = <<>>
                THEN /\ hostRunning' = Idle
                     /\ isPending' = FALSE
                     /\ UNCHANGED hostQueue
                ELSE /\ hostRunning' = [active |-> TRUE, formData |-> Head(hostQueue),
                                        prevState |-> result.value]
                     /\ hostQueue' = Tail(hostQueue)
                     /\ UNCHANGED isPending
             /\ UNCHANGED mounted
        ELSE /\ mounted' = FALSE
             /\ hostRunning' = Idle
             /\ hostQueue' = <<>>
             /\ isPending' = FALSE
             /\ UNCHANGED <<state, effectPending>>
  /\ nextRef' = IF outcome.kind = "return" /\ outcome.value = hostRunning.prevState
                THEN nextRef ELSE nextRef + 2
  /\ lastSettled' = [made |-> TRUE, formData |-> hostRunning.formData, kind |-> outcome.kind]
  /\ UNCHANGED <<variantVars, cliVars, actionVars, refVars, executing, submitting, registrations, fired,
                 dispatched, lastEffect, successDone>>

Init ==
  /\ actionCall = Idle
  /\ lastCall = NoCall
  /\ prevFailure = NoCall
  /\ \E actionState \in InitialStates : InitBinding(actionState)

Next ==
  \/ \E callback \in Callbacks : onSuccess(callback)
  \/ \E callback \in Callbacks : onError(callback)
  \/ \E callback \in Callbacks : onSubmit(callback)
  \/ RunEffect
  \/ \E slot \in {"success", "error"}, rejected \in BOOLEAN :
       ExecuteCallbackResumes(slot, rejected)
  \/ \E formData \in FormDatas : wrappedDispatch(formData)
  \/ \E formData \in FormDatas, rejected \in BOOLEAN :
       WrappedDispatchResumes(formData, rejected)
  \/ /\ hostRunning # Idle
     /\ \E outcome \in HandlerOutcomes(hostRunning.prevState, nextRef) : HandlerSettles(outcome)

Spec == Init /\ [][Next]_vars

-----------------------------------------------------------------------------
(* Properties of the wrapped handler *)

ParamKeys == {"formErrors", "extra", "redirect", "refresh"}

\* C1: when the handler calls the error signal function with (M, P) in a call
\* (state, F), the wrapped handler resolves to a record with success = false,
\* message = M, formErrors/extra/redirect/refresh those of P, and payload = F.
C1_ErrorSignalRecord ==
  (lastCall.made /\ lastCall.outcome.kind = "error") =>
    /\ lastCall.result.kind = "resolved"
    /\ Get(lastCall.result.value.f, "success") = <<FALSE>>
    /\ Get(lastCall.result.value.f, "message") = lastCall.outcome.message
    /\ \A k \in ParamKeys :
         Get(lastCall.result.value.f, k) = Get(lastCall.outcome.params, k)
    /\ Get(lastCall.result.value.f, "payload") = <<lastCall.formData>>

\* C2: when the handler calls the success signal function with (M, P) in a
\* call (state, F), the wrapped handler resolves to a record with
\* success = true, message = M, the four fields of P, and payload = F.
C2_SuccessSignalRecord ==
  (lastCall.made /\ lastCall.outcome.kind = "success") =>
    /\ lastCall.result.kind = "resolved"
    /\ Get(lastCall.result.value.f, "success") = <<TRUE>>
    /\ Get(lastCall.result.value.f, "message") = lastCall.outcome.message
    /\ \A k \in ParamKeys :
         Get(lastCall.result.value.f, k) = Get(lastCall.outcome.params, k)
    /\ Get(lastCall.result.value.f, "payload") = <<lastCall.formData>>

\* C3: a thrown value that is neither a signal exception nor control-marked
\* gives the record {success: false, message: the generic text, payload: F}
\* and nothing else, and exactly one log line, labelled with the context.
C3_UnexpectedFailureRecord ==
  IsUnexpected(lastCall) =>
    /\ lastCall.result.kind = "resolved"
    /\ lastCall.result.value.f =
         [success |-> FALSE,
          message |-> "An unexpected error occurred. Please try again.",
          payload |-> lastCall.formData]
    /\ lastCall.result.log =
         << <<"Error in form action \"" \o lastCall.context \o "\":",
              lastCall.outcome.value>> >>

C3_Witness ==
  /\ IsUnexpected(lastCall)
  /\ lastCall.outcome.value.type = "object"
  /\ "digest" \in DOMAIN lastCall.outcome.value.props
  /\ lastCall.context = "user-registration"

\* C4 as stated: every thrown object that carries the control marker makes
\* the wrapped handler reject with that same object, with no record and no log.
C4_EveryMarkedObjectRethrown ==
  (lastCall.made /\ lastCall.outcome.kind = "throw"
     /\ ControlMarked(lastCall.outcome.value)) =>
    /\ lastCall.result.kind = "rejected"
    /\ lastCall.result.error = lastCall.outcome.value
    /\ lastCall.result.log = <<>>

\* C4, amended: every thrown object that carries the control marker and is
\* not a signal exception makes the wrapped handler reject with that same
\* object (same identity), with no record and no log.
C4_MarkedNonSignalRethrown ==
  (lastCall.made /\ lastCall.outcome.kind = "throw"
     /\ ControlMarked(lastCall.outcome.value)
     /\ ~SignalException(lastCall.outcome.value)) =>
    /\ lastCall.result.kind = "rejected"
    /\ lastCall.result.error = lastCall.outcome.value
    /\ lastCall.result.log = <<>>

C4_Witness ==
  /\ lastCall.made
  /\ lastCall.outcome.kind = "throw"
  /\ ControlMarked(lastCall.outcome.value)
  /\ ~SignalException(lastCall.outcome.value)
  /\ lastCall.result.kind = "rejected"

\* C5: a handler that resolves normally makes the wrapped handler resolve to
\* the very value it returned: same object, same fields, nothing logged.
C5_NormalReturnUnchanged ==
  (lastCall.made /\ lastCall.outcome.kind = "return") =>
    /\ lastCall.result.kind = "resolved"
    /\ lastCall.result.value = lastCall.outcome.value
    /\ lastCall.result.log = <<>>

C5_Witness ==
  /\ lastCall.made
  /\ lastCall.outcome.kind = "return"
  /\ lastCall.outcome.value # lastCall.state
  /\ "success" \notin DOMAIN lastCall.outcome.value.f

C7_FailureRecordIndependentOfError ==
  (IsUnexpected(lastCall) /\ prevFailure.made
     /\ prevFailure.formData = lastCall.formData) =>
    lastCall.result.value.f = prevFailure.value.f

C7_Witness ==
  /\ IsUnexpected(lastCall)
  /\ prevFailure.made
  /\ prevFailure.formData = lastCall.formData
  /\ prevFailure.error = PlainError
  /\ lastCall.outcome.value = [type |-> "string", v |-> "DB down"]

-----------------------------------------------------------------------------
(* Properties of the binding *)

\* C8: whatever the sequence of registrations, dispatches and publications,
\* and also when a callback is still awaited while a further publication or
\* dispatch arrives, every registration leads to at most one invocation of
\* its callback.
C8_AtMostOneInvocationPerRegistration ==
  /\ fired.success <= 1
  /\ fired.error <= 1
  /\ fired.submit <= 1

\* C9: once a success callback has fired and completed, no step invokes a
\* success callback until onSuccess is called again.
C9_SuccessCallbackOneShot ==
  [][successDone => fired'.success <= fired.success]_vars

C9_Witness ==
  /\ successDone
  /\ lastEffect.ran
  /\ Get(lastEffect.state.f, "success") = <<TRUE>>
  /\ lastEffect.calls = <<>>
  /\ dispatched > 0

\* C10: when the effect runs for a state with success === true while a
\* success callback is registered, that callback and no other is invoked,
\* with that state as its argument; no effect run invokes more than one
\* callback.
C10_SuccessPublicationCallsSuccessOnly ==
  [][(effectPending /\ ~effectPending') =>
       /\ Len(lastEffect'.calls) <= 1
       /\ lastEffect'.state = state
       /\ (Get(state.f, "success") = <<TRUE>> /\ onSuccessCallbackRef # Null) =>
            /\ lastEffect'.calls = << [slot |-> "success", cb |-> onSuccessCallbackRef,
                                       arg |-> state] >>
            /\ fired' = [fired EXCEPT !.success = @ + 1]]_vars

C10_Witness ==
  /\ lastEffect.ran
  /\ Get(lastEffect.state.f, "success") = <<TRUE>>
  /\ lastEffect.calls # <<>>
  /\ lastEffect.calls[1].slot = "success"
  /\ onErrorCallbackRef # Null
  /\ fired.success = 1
  /\ fired.error = 0
  /\ dispatched > 0

\* C11: when the effect runs for a state with success === false while an
\* error callback is registered, that callback is invoked, with that state,
\* exactly when state.message is a non-empty string; when it is not invoked
\* the effect leaves its registration in place.
C11_ErrorCallbackNeedsMessage ==
  [][(effectPending /\ ~effectPending' /\ Get(state.f, "success") = <<FALSE>>
        /\ onErrorCallbackRef # Null) =>
       /\ (lastEffect'.calls # <<>>) <=> (Get(state.f, "message") \notin {<<>>, <<"">>})
       /\ (lastEffect'.calls # <<>>) =>
            /\ lastEffect'.calls = << [slot |-> "error", cb |-> onErrorCallbackRef,
                                       arg |-> state] >>
            /\ fired' = [fired EXCEPT !.error = @ + 1]
       /\ (lastEffect'.calls = <<>>) => fired' = fired
       /\ onErrorCallbackRef' = onErrorCallbackRef]_vars

C11_Witness ==
  /\ lastEffect.ran
  /\ Get(lastEffect.state.f, "success") = <<FALSE>>
  /\ Get(lastEffect.state.f, "message") = <<"">>
  /\ lastEffect.calls = <<>>
  /\ onErrorCallbackRef # Null
  /\ fired.error = 0
  /\ dispatched > 0

\* C12: as long as no dispatch has been made, no success or error callback
\* has been invoked, whatever record the binding was constructed with and
\* whatever was registered before the first effect run.
C12_NoCallbackBeforeDispatch ==
  (dispatched = 0) => (fired.success = 0 /\ fired.error = 0)

\* C13: when the effect of a publication has invoked a callback and has
\* issued the navigation or the refresh, that callback has already completed
\* and its registration is already cleared.
C13_CallbackCompletesBeforeNavigation ==
  (lastEffect.ran /\ lastEffect.calls # <<>> /\ lastEffect.navigation # <<>>) =>
    /\ executing[lastEffect.calls[1].slot] = 0
    /\ lastEffect.calls[1].slot = "success" => onSuccessCallbackRef # lastEffect.calls[1].cb
    /\ lastEffect.calls[1].slot = "error" => onErrorCallbackRef # lastEffect.calls[1].cb

\* C14: an effect run for a state with both redirect and refresh set issues
\* router.push(redirect) first and router.refresh() second, and nothing else.
C14_RedirectBeforeRefresh ==
  (lastEffect.ran
     /\ Get(lastEffect.state.f, "redirect") \notin {<<>>, <<"">>}
     /\ Get(lastEffect.state.f, "refresh") = <<TRUE>>) =>
    lastEffect.navigation = << [op |-> "push", path |-> lastEffect.state.f.redirect],
                               [op |-> "refresh"] >>

C14_Witness ==
  /\ lastEffect.ran
  /\ Get(lastEffect.state.f, "redirect") = <<"/x">>
  /\ Get(lastEffect.state.f, "refresh") = <<TRUE>>
  /\ Len(lastEffect.navigation) = 2
  /\ dispatched > 0

\* C15: no navigation and no refresh is performed unless a state has been
\* published as the result of a dispatch.
C15_NavigationOnlyAfterDispatch ==
  (lastEffect.ran /\ dispatched = 0) => lastEffect.navigation = <<>>

\* this step calls the host reducer's dispatch, once, with fd
HostInvokedWith(fd) ==
  \/ /\ hostRunning = Idle
     /\ hostRunning' = [active |-> TRUE, formData |-> fd, prevState |-> state]
     /\ hostQueue' = hostQueue
  \/ /\ hostRunning # Idle
     /\ hostRunning' = hostRunning
     /\ hostQueue' = Append(hostQueue, fd)

\* this step calls the host reducer's dispatch
HostInvoked ==
  \/ hostRunning = Idle /\ hostRunning' # Idle
  \/ Len(hostQueue') > Len(hostQueue)

\* C16: a dispatch made with no submit callback registered calls the host
\* dispatch once, in that step. A dispatch(formData) made with a submit
\* callback registered invokes the callback with formData and does not call
\* the host dispatch; when the callback has completed, the registration is
\* cleared and the host dispatch is called once with the same formData, in
\* the same step. The host dispatch is called in no other step.
C16_SubmitCallbackThenHostDispatch ==
  [][/\ (dispatched' # dispatched /\ onSubmitCallbackRef = Null) =>
          /\ \E fd \in FormDatas : HostInvokedWith(fd)
          /\ fired' = fired /\ submitting' = submitting
     /\ (dispatched' # dispatched /\ onSubmitCallbackRef # Null) =>
          /\ ~HostInvoked
          /\ fired' = [fired EXCEPT !.submit = @ + 1]
          /\ \E fd \in FormDatas : submitting' = [submitting EXCEPT ![fd] = @ + 1]
     /\ \A fd \in FormDatas : (submitting'[fd] < submitting[fd] /\ mounted) =>
          \/ onSubmitCallbackRef' = Null /\ HostInvokedWith(fd)
          \/ onSubmitCallbackRef' = onSubmitCallbackRef /\ ~HostInvoked
     /\ HostInvoked =>
          \/ dispatched' # dispatched
          \/ \E fd \in FormDatas : submitting'[fd] < submitting[fd]]_vars

C16_Witness ==
  /\ dispatched = 1
  /\ fired.submit = 1
  /\ onSubmitCallbackRef = Null
  /\ \A fd \in FormDatas : submitting[fd] = 0
  /\ hostRunning # Idle
  /\ hostRunning.formData = "fdB"

\* C17: a registration that has not been invoked yet stays in its slot until
\* it is invoked: no step empties a slot whose callback was registered last
\* and has not fired.
C17_LastRegistrationWins ==
  [][/\ (onSuccessCallbackRef # Null /\ fired.success = 0) => onSuccessCallbackRef' # Null
     /\ (onErrorCallbackRef # Null /\ fired.error = 0) => onErrorCallbackRef' # Null
     /\ (onSubmitCallbackRef # Null /\ fired.submit = 0) => onSubmitCallbackRef' # Null]_vars

\* the dispatches that have started (their submit callback was invoked, or
\* the host dispatch was called for them) and whose handler has not settled
RECURSIVE Suspended(_)
Suspended(fds) ==
  IF fds = {} THEN 0
  ELSE LET fd == CHOOSE x \in fds : TRUE IN submitting[fd] + Suspended(fds \ {fd})

InProgress ==
  Suspended(FormDatas) + (IF hostRunning = Idle THEN 0 ELSE 1) + Len(hostQueue)

\* C18: while the component is mounted, isPending is true exactly while a
\* dispatch has been invoked whose handler has not settled yet, the time its
\* submit callback runs included.
C18_PendingFromDispatchToResolution ==
  mounted => (isPending <=> InProgress > 0)

\* C19: at most one dispatch at a time is between its first step and its end:
\* suspended at the await of its submit callback, or with its handler running.
\* (A dispatch the host keeps queued behind the running one is not counted.)
C19_DispatchesDoNotInterleave ==
  Suspended(FormDatas) + (IF hostRunning = Idle THEN 0 ELSE 1) <= 1

\* C20 as stated: once a submission has completed with a record, the payload
\* of the current record is the formData of that submission, whatever the
\* handler did.
C20_PayloadIsLastFormData ==
  (lastSettled.made /\ mounted) => Get(state.f, "payload") = <<lastSettled.formData>>

\* C20, amended: once a submission has completed whose handler called the
\* error or the success signal function or failed unexpectedly, the payload
\* of the current record is the formData of that submission.
C20_WrapperBuiltPayloadIsFormData ==
  (lastSettled.made /\ mounted /\ lastSettled.kind \in {"error", "success", "throw"}) =>
    Get(state.f, "payload") = <<lastSettled.formData>>

C20_Witness ==
  /\ lastSettled.made
  /\ mounted
  /\ lastSettled.kind = "throw"
  /\ lastSettled.formData = "fdB"
  /\ state.f.payload = "fdB"
  /\ dispatched = 2
  /\ lastEffect.ran
  /\ Get(lastEffect.state.f, "payload") = <<"fdA">>

-----------------------------------------------------------------------------
(* Further properties of the wrapped handler *)

\* C21 as stated: every record the wrapped handler resolves to has a success
\* field holding a boolean, whatever the handler did.
C21_SuccessAlwaysPresent ==
  (lastCall.made /\ lastCall.result.kind = "resolved") =>
    /\ "success" \in DOMAIN lastCall.result.value.f
    /\ lastCall.result.value.f.success \in BOOLEAN

\* C21, amended: when the handler called a signal function or failed
\* unexpectedly, the record the wrapped handler resolves to has a success
\* field holding a boolean.
C21_SuccessPresentInBuiltRecords ==
  (lastCall.made /\ (lastCall.outcome.kind \in {"error", "success"} \/ IsUnexpected(lastCall))) =>
    /\ lastCall.result.kind = "resolved"
    /\ "success" \in DOMAIN lastCall.result.value.f
    /\ lastCall.result.value.f.success \in BOOLEAN

C21_Witness ==
  /\ IsUnexpected(lastCall)
  /\ lastCall.outcome.value.type = "undefined"
  /\ Get(lastCall.result.value.f, "success") = <<FALSE>>
  /\ "success" \notin DOMAIN lastCall.state.f

\* C22: a call of the error or success signal function throws: the wrapped
\* handler resolves to the record of the signal (success false for error,
\* true for success), and never to what the statements after the call would
\* have returned.
C22_SignalNeverReturns ==
  (lastCall.made /\ lastCall.outcome.kind \in {"error", "success"}) =>
    /\ lastCall.result.kind = "resolved"
    /\ lastCall.result.value # lastCall.outcome.after
    /\ lastCall.result.value.f # lastCall.outcome.after.f
    /\ Get(lastCall.result.value.f, "success") = <<lastCall.outcome.kind = "success">>
    /\ Get(lastCall.result.value.f, "payload") = <<lastCall.formData>>

C22_Witness ==
  /\ lastCall.made
  /\ lastCall.outcome.kind = "error"
  /\ lastCall.outcome.after.f.success = TRUE
  /\ Get(lastCall.result.value.f, "success") = <<FALSE>>
  /\ lastCall.outcome.message = <<"Please fix the errors below">>

\* C23: the quick-start loginAction, called with an email and a password for
\* which authentication succeeds, resolves to the success record
\* (success true, 'Login successful!', redirect '/dashboard'); the record
\* 'Invalid credentials' is produced only when authentication throws.
C23_LoginSucceeds ==
  (lastCall.made /\ "login" \in DOMAIN lastCall.outcome) =>
    /\ (lastCall.outcome.login.email # "" /\ lastCall.outcome.login.password # ""
          /\ ~lastCall.outcome.login.authThrows) =>
         /\ Get(lastCall.result.value.f, "success") = <<TRUE>>
         /\ Get(lastCall.result.value.f, "message") = <<"Login successful!">>
         /\ Get(lastCall.result.value.f, "redirect") = <<"/dashboard">>
    /\ (Get(lastCall.result.value.f, "message") = <<"Invalid credentials">>) =>
         lastCall.outcome.login.authThrows

\* C24: a binding constructed without an actionState argument holds, until
\* the first submission is published, the default record: payload the empty
\* form-data, success false, no message that is a string, and no other field.
C24_DefaultRecord ==
  (lastEffect.ran /\ ~lastSettled.made
     /\ state = createActionState("fdEmpty", NoParams, 1)) =>
    /\ Get(state.f, "payload") = <<"fdEmpty">>
    /\ Get(state.f, "success") = <<FALSE>>
    /\ DOMAIN state.f \subseteq {"payload", "success", "message"}

\* C25: the record materialized from a signal has success false for the
\* error signal and true for the success signal, and carries exactly the
\* message, formErrors, extra, redirect and refresh the signal was made with
\* (a field that was not given is absent), next to the payload.
C25_SignalRecordExact ==
  (lastCall.made /\ lastCall.outcome.kind \in {"error", "success"}) =>
    /\ lastCall.result.kind = "resolved"
    /\ lastCall.result.value.f =
         ObjectOf([message    |-> lastCall.outcome.message,
                   success    |-> <<lastCall.outcome.kind = "success">>,
                   payload    |-> <<lastCall.formData>>,
                   formErrors |-> Get(lastCall.outcome.params, "formErrors"),
                   extra      |-> Get(lastCall.outcome.params, "extra"),
                   redirect   |-> Get(lastCall.outcome.params, "redirect"),
                   refresh    |-> Get(lastCall.outcome.params, "refresh")])

ExecFails == [threw |-> TRUE, value |-> ""]

ExecReturns(output) == [threw |-> FALSE, value |-> output]

ExecSyncResults == {ExecFails, ExecReturns("")}

\* exec: the failure of the command is thrown again
exec(result) ==
  IF result.threw
    THEN [threw |-> TRUE, value |-> <<>>]
    ELSE [threw |-> FALSE, value |-> <<result.value>>]

\* execSilent: the failure of the command is caught and null is returned
execSilent(result) ==
  IF result.threw
    THEN [threw |-> FALSE, value |-> <<>>]
    ELSE [threw |-> FALSE, value |-> <<result.value>>]

\* a JavaScript value read as a condition: null and '' are falsy
TruthyOutput(value) == value # <<>> /\ value # <<"">>

\* a try block of exec calls: the commands run in order up to the first
\* failure; ok tells whether the block reached its end
TryExec(cmds, results) ==
  LET n == Len(cmds)
      last == IF \E i \in 1..n : exec(results[i]).threw
                THEN CHOOSE i \in 1..n :
                       /\ exec(results[i]).threw
                       /\ \A j \in 1..(i - 1) : ~exec(results[j]).threw
                ELSE n
  IN  [log |-> [i \in 1..last |-> [command |-> cmds[i], failed |-> results[i].threw]],
       ok |-> ~exec(results[last]).threw]

QualityChecks == <<"pnpm type-check", "pnpm lint", "pnpm format:check">>

GitStatusResults == {ExecFails, ExecReturns(""), ExecReturns("M src/hook.tsx")}

GitBranchResults ==
  {ExecFails, ExecReturns("main"), ExecReturns("master"), ExecReturns("feature")}

checkGitStatusForPublish(result) ==
  LET status == execSilent(result)
  IN  IF status.threw THEN TRUE
      ELSE IF TruthyOutput(status.value) THEN FALSE
      ELSE TRUE

checkGitBranch(result) ==
  LET branch == execSilent(result)
  IN  IF branch.threw THEN TRUE
      ELSE IF branch.value # <<"main">> /\ branch.value # <<"master">> THEN FALSE
      ELSE TRUE

buildPackage(result) == TryExec(<<"pnpm build">>, <<result>>)

createGitTag(results) == TryExec(<<"git add", "git commit", "git tag">>, results)

publishToNpm(isDryRun, result) ==
  TryExec(<<IF isDryRun THEN "npm publish --dry-run" ELSE "npm publish">>, <<result>>)

pushToGit(results) == TryExec(<<"git push", "git push --tags">>, results)

\* publishAction returns value
Return(value) ==
  /\ pc' = "returned"
  /\ returned' = <<value>>

\* publishAction goes on to the step named label
Goto(label) ==
  /\ pc' = label
  /\ UNCHANGED returned

Answered(name) ==
  \E i \in 1..Len(prompts) : prompts[i].name = name /\ prompts[i].answer

\* publishAction reads package.json and refuses a private package
GetPackageInfo(private) ==
  /\ pc = "publishAction"
  /\ locals' = [locals EXCEPT !.private = private]
  /\ IF private THEN Return(FALSE) ELSE Goto("preflight")
  /\ UNCHANGED <<commands, prompts, actionVars, bindingVars, variantVars>>

\* the two git checks before the wizard's questions
PreflightChecks(status, branch) ==
  /\ pc = "preflight"
  /\ LET gitStatusClean == checkGitStatusForPublish(status)
         onMainBranch == checkGitBranch(branch)
     IN  /\ locals' = [locals EXCEPT !.gitStatusClean = gitStatusClean,
                                     !.onMainBranch = onMainBranch]
         /\ commands' = commands \o
              <<[command |-> "git status --porcelain", failed |-> status.threw],
                [command |-> "git branch --show-current", failed |-> branch.threw]>>
         /\ IF ~gitStatusClean \/ ~onMainBranch
              THEN Goto("continueWithIssues")
              ELSE Goto("runChecks")
  /\ UNCHANGED <<prompts, actionVars, bindingVars, variantVars>>

PromptNames ==
  {"continueWithIssues", "runChecks", "continueWithFailedChecks", "shouldBuild",
   "dryRun", "finalConfirm", "shouldTag", "shouldPush"}

\* what publishAction does with the answer to the prompt name: it returns
\* (return holds the value) or goes on to the step goto
AfterPrompt(name, answer) ==
  CASE name = "continueWithIssues" ->
         IF ~answer THEN [return |-> <<FALSE>>, goto |-> ""]
                    ELSE [return |-> <<>>, goto |-> "runChecks"]
    [] name = "runChecks" ->
         [return |-> <<>>, goto |-> IF answer THEN "runQualityChecks" ELSE "shouldBuild"]
    [] name = "continueWithFailedChecks" ->
         IF ~answer THEN [return |-> <<FALSE>>, goto |-> ""]
                    ELSE [return |-> <<>>, goto |-> "shouldBuild"]
    [] name = "shouldBuild" ->
         [return |-> <<>>, goto |-> IF answer THEN "buildPackage" ELSE "dryRun"]
    [] name = "dryRun" ->
         [return |-> <<>>, goto |-> IF answer THEN "publishToNpm(true)" ELSE "finalConfirm"]
    [] name = "finalConfirm" ->
         IF ~answer THEN [return |-> <<FALSE>>, goto |-> ""]
                    ELSE [return |-> <<>>, goto |-> "shouldTag"]
    [] name = "shouldTag" ->
         [return |-> <<>>, goto |-> IF answer THEN "createGitTag" ELSE "publishToNpm(false)"]
    [] name = "shouldPush" ->
         IF answer THEN [return |-> <<>>, goto |-> "pushToGit"]
                   ELSE [return |-> <<TRUE>>, goto |-> ""]

\* the user answers the confirm prompt publishAction is waiting at
Prompt(answer) ==
  /\ pc \in PromptNames
  /\ prompts' = Append(prompts, [name |-> pc, answer |-> answer])
  /\ LET after == AfterPrompt(pc, answer)
     IN  IF after.return # <<>> THEN Return(after.return[1]) ELSE Goto(after.goto)
  /\ locals' = IF pc = "runChecks" /\ answer
                 THEN [locals EXCEPT !.allGood = TRUE, !.check = 1]
                 ELSE locals
  /\ UNCHANGED <<commands, actionVars, bindingVars, variantVars>>

\* one turn of the loop of runQualityChecks; after the last one publishAction
\* reads the returned allGood as checksPass
runQualityChecks(result) ==
  /\ pc = "runQualityChecks"
  /\ LET ran == execSilent(result)
         allGood == IF ran.threw THEN FALSE ELSE locals.allGood
     IN  /\ locals' = [locals EXCEPT !.allGood = allGood, !.check = @ + 1]
         /\ commands' = Append(commands,
              [command |-> QualityChecks[locals.check], failed |-> result.threw])
         /\ IF locals.check < Len(QualityChecks)
              THEN Goto("runQualityChecks")
              ELSE IF ~allGood
                THEN Goto("continueWithFailedChecks")
                ELSE Goto("shouldBuild")
  /\ UNCHANGED <<prompts, actionVars, bindingVars, variantVars>>

BuildStep(result) ==
  /\ pc = "buildPackage"
  /\ LET buildSuccess == buildPackage(result)
     IN  /\ commands' = commands \o buildSuccess.log
         /\ IF ~buildSuccess.ok THEN Return(FALSE) ELSE Goto("dryRun")
  /\ UNCHANGED <<locals, prompts, actionVars, bindingVars, variantVars>>

DryRunStep(result) ==
  /\ pc = "publishToNpm(true)"
  /\ LET dryRunSuccess == publishToNpm(TRUE, result)
     IN  /\ commands' = commands \o dryRunSuccess.log
         /\ IF ~dryRunSuccess.ok THEN Return(FALSE) ELSE Goto("finalConfirm")
  /\ UNCHANGED <<locals, prompts, actionVars, bindingVars, variantVars>>

\* the value createGitTag returns is not read
TagStep(results) ==
  /\ pc = "createGitTag"
  /\ commands' = commands \o createGitTag(results).log
  /\ Goto("publishToNpm(false)")
  /\ UNCHANGED <<locals, prompts, actionVars, bindingVars, variantVars>>

PublishStep(result) ==
  /\ pc = "publishToNpm(false)"
  /\ LET publishSuccess == publishToNpm(FALSE, result)
     IN  /\ commands' = commands \o publishSuccess.log
         /\ IF publishSuccess.ok THEN Goto("shouldPush") ELSE Return(FALSE)
  /\ UNCHANGED <<locals, prompts, actionVars, bindingVars, variantVars>>

\* the value pushToGit returns is not read
PushStep(results) ==
  /\ pc = "pushToGit"
  /\ commands' = commands \o pushToGit(results).log
  /\ Return(TRUE)
  /\ UNCHANGED <<locals, prompts, actionVars, bindingVars, variantVars>>

InitCli == InitAction

NextCli ==
  \/ \E private \in BOOLEAN : GetPackageInfo(private)
  \/ \E status \in GitStatusResults, branch \in GitBranchResults :
       PreflightChecks(status, branch)
  \/ \E answer \in BOOLEAN : Prompt(answer)
  \/ \E result \in ExecSyncResults : runQualityChecks(result)
  \/ \E result \in ExecSyncResults : BuildStep(result)
  \/ \E result \in ExecSyncResults : DryRunStep(result)
  \/ \E results \in [1..3 -> ExecSyncResults] : TagStep(results)
  \/ \E result \in ExecSyncResults : PublishStep(result)
  \/ \E results \in [1..2 -> ExecSyncResults] : PushStep(results)

SpecCli == InitCli /\ [][NextCli]_vars

Ran(command) == \E i \in 1..Len(commands) : commands[i].command = command

Failed(command) ==
  \E i \in 1..Len(commands) : commands[i].command = command /\ commands[i].failed

\* C29: npm publish is run only for a package that is not private, after the
\* final confirmation was answered yes, and after every step the user elected
\* before it succeeded: the build, the dry run, the git tag, and the quality
\* checks unless the user confirmed to continue with failed checks
C29_PublishOnlyAfterSuccess ==
  Ran("npm publish") =>
    /\ ~locals.private
    /\ Answered("finalConfirm")
    /\ ~Failed("pnpm build")
    /\ ~Failed("npm publish --dry-run")
    /\ \A c \in {"git add", "git commit", "git tag"} : ~Failed(c)
    /\ (\E i \in 1..Len(QualityChecks) : Failed(QualityChecks[i]))
         => Answered("continueWithFailedChecks")

\* C30: once runQualityChecks has run its three commands, a failed command
\* means that it returns false, and publishAction then goes on to the build
\* only after the user confirmed to continue with failed checks
C30_QualityGate ==
  (/\ locals.check > Len(QualityChecks)
   /\ \E i \in 1..Len(QualityChecks) : Failed(QualityChecks[i]))
    => /\ ~locals.allGood
       /\ pc \notin {"continueWithFailedChecks", "runQualityChecks"}
            => (Answered("continueWithFailedChecks") \/ returned = <<FALSE>>)

Asked(name) == \E i \in 1..Len(prompts) : prompts[i].name = name

\* C31: with uncommitted changes or on a branch other than main/master, npm
\* publish is reached only after the override was answered yes; and when git
\* is unavailable (both git commands fail) both git checks pass and the
\* override is not asked
C31_GitSafety ==
  /\ (Ran("npm publish") /\ (~locals.gitStatusClean \/ ~locals.onMainBranch))
       => Answered("continueWithIssues")
  /\ (Failed("git status --porcelain") /\ Failed("git branch --show-current"))
       => /\ locals.gitStatusClean
          /\ locals.onMainBranch
          /\ pc # "continueWithIssues"
          /\ ~Asked("continueWithIssues")

\* checkIfVersionExists: npm view is run through execSilent, and true is
\* returned unless that call throws
checkIfVersionExists(result) ==
  LET viewed == execSilent(result)
  IN  IF viewed.threw THEN FALSE ELSE TRUE

\* C32: before npm publish runs, the workflow has asked npm whether the
\* version exists (npm view), and the check answers differently for a version
\* npm knows and one it does not know
C32_VersionConflictChecked ==
  Ran("npm publish") =>
    /\ \E i \in 1..Len(commands) :
         /\ commands[i].command = "npm view"
         /\ \E j \in (i + 1)..Len(commands) : commands[j].command = "npm publish"
    /\ checkIfVersionExists(ExecReturns("1.0.0")) # checkIfVersionExists(ExecFails)

\* ------------------------------------------------------------------------
\* Further properties of the binding
\* ------------------------------------------------------------------------

\* C33: when the submit callback of a dispatch(formData) rejects, the
\* dispatch ends at its await: the host dispatch is not called for the
\* submission, no handler starts or settles, no state is published, and the
\* submit callback stays registered
C33_RejectedSubmitCallback ==
  [][\A fd \in FormDatas : WrappedDispatchResumes(fd, TRUE) =>
       /\ ~HostInvoked
       /\ UNCHANGED <<state, isPending, hostRunning, hostQueue, effectPending,
                      lastSettled, onSubmitCallbackRef>>]_vars

\* the only dispatch made met the only registration, its submit callback was
\* invoked and is no longer running, and the registration is still in place:
\* the callback rejected
C33_Witness ==
  /\ registrations = 1
  /\ dispatched = 1
  /\ fired.submit = 1
  /\ \A fd \in FormDatas : submitting[fd] = 0
  /\ onSubmitCallbackRef # Null
  /\ hostRunning = Idle
  /\ lastSettled = NoCall

\* C34: a callback registered while an earlier callback of its slot is still
\* awaited (it has not been invoked itself) is still registered when the
\* earlier callback completes
C34_RegistrationSurvivesCompletion ==
  [][/\ (/\ executing.success > 0
         /\ executing'.success < executing.success
         /\ onSuccessCallbackRef # Null
         /\ fired.success = 0) => onSuccessCallbackRef' = onSuccessCallbackRef
     /\ (/\ executing.error > 0
         /\ executing'.error < executing.error
         /\ onErrorCallbackRef # Null
         /\ fired.error = 0) => onErrorCallbackRef' = onErrorCallbackRef
     /\ (/\ \E fd \in FormDatas : submitting'[fd] < submitting[fd]
         /\ onSubmitCallbackRef # Null
         /\ fired.submit = 0) => onSubmitCallbackRef' = onSubmitCallbackRef]_vars

\* this step is a run of the effect
EffectRuns == effectPending /\ ~effectPending'

\* C35: a success or error slot is emptied only when the callback it holds
\* has been invoked; an effect run for a state that does not match a slot
\* leaves the slot as it is; and an effect run for a state that matches a
\* registered callback invokes it
C35_ClearedOnlyByFiring ==
  [][/\ (onSuccessCallbackRef # Null /\ onSuccessCallbackRef' = Null) => fired.success > 0
     /\ (onErrorCallbackRef # Null /\ onErrorCallbackRef' = Null) => fired.error > 0
     /\ EffectRuns =>
          /\ onSuccessCallbackRef' = onSuccessCallbackRef
          /\ onErrorCallbackRef' = onErrorCallbackRef
          /\ (Get(state.f, "success") = <<TRUE>> /\ onSuccessCallbackRef # Null)
               => fired'.success = fired.success + 1
          /\ (/\ Get(state.f, "success") = <<FALSE>>
              /\ Truthy(Get(state.f, "message"))
              /\ onErrorCallbackRef # Null)
               => fired'.error = fired.error + 1
          /\ Get(state.f, "success") # <<TRUE>> => fired'.success = fired.success
          /\ (Get(state.f, "success") = <<TRUE>> \/ ~Truthy(Get(state.f, "message")))
               => fired'.error = fired.error]_vars

\* ------------------------------------------------------------------------
\* The control marker
\* ------------------------------------------------------------------------

\* C36: of the values a handler throws, the wrapped handler re-throws only
\* objects whose digest is a string beginning with NEXT_; null, undefined, a
\* primitive, an object with no digest, with a digest that is not a string or
\* with a digest of another prefix gives the generic failure record; and a
\* signal exception gives its own record, with a NEXT_ digest or without
C36_ControlMarkerExact ==
  (lastCall.made /\ lastCall.outcome.kind = "throw") =>
    LET v == lastCall.outcome.value
        result == lastCall.result
    IN  /\ result.kind = "rejected" => (ControlMarked(v) /\ result.error = v)
        /\ (~SignalException(v) /\ ~ControlMarked(v)) =>
             /\ result.kind = "resolved"
             /\ result.value.f = [success |-> FALSE, message |-> UnexpectedErrorMessage,
                                  payload |-> lastCall.formData]
        /\ SignalException(v) =>
             /\ result.kind = "resolved"
             /\ result.value.f = toResponse(v, result.value.ref).f
             /\ result.value.f.success = (v.class = "ActionSuccess")
             /\ result.log = <<>>

\* a signal exception carrying a NEXT_ digest was thrown and converted, after
\* an object with a numeric digest was thrown and reported as unexpected
C36_Witness ==
  /\ lastCall.made
  /\ lastCall.outcome.kind = "throw"
  /\ SignalException(lastCall.outcome.value)
  /\ ControlMarked(lastCall.outcome.value)
  /\ lastCall.result.kind = "resolved"
  /\ prevFailure.made
  /\ prevFailure.error = WithDigest(PlainError, JsNumber(404))

\* ------------------------------------------------------------------------
\* useExperimentalFormAction (use-stable-form-action.tsx): the state cell is
\* a useState cell, and every dispatch starts its own transition
\* ------------------------------------------------------------------------

MaxReset == 1

MaxSubmit == 2

\* state.success read as a condition
TruthyFlag(opt) == opt = <<TRUE>>

\* the callback the effect calls, if any
ExperimentalEffectCall(st, successRef, errorRef) ==
  IF TruthyFlag(Get(st.f, "success")) /\ successRef # Null
  THEN << [slot |-> "success", cb |-> successRef, arg |-> st] >>
  ELSE IF ~TruthyFlag(Get(st.f, "success")) /\ Truthy(Get(st.f, "message")) /\ errorRef # Null
  THEN << [slot |-> "error", cb |-> errorRef, arg |-> st] >>
  ELSE <<>>

onFormSuccess(callback) == onSuccess(callback)

onFormError(callback) == onError(callback)

onFormSubmit(callback) == onSubmit(callback)

\* the effect on [state, router]: the callback is called, not awaited, and
\* its ref is cleared at once
ExperimentalEffect ==
  /\ mounted
  /\ effectPending
  /\ LET calls == ExperimentalEffectCall(state, onSuccessCallbackRef, onErrorCallbackRef) IN
       /\ fired' = Fired(calls)
       /\ onSuccessCallbackRef' = IF calls # <<>> /\ calls[1].slot = "success"
                                  THEN Consumed(onSuccessCallbackRef)
                                  ELSE onSuccessCallbackRef
       /\ onErrorCallbackRef' = IF calls # <<>> /\ calls[1].slot = "error"
                                THEN Consumed(onErrorCallbackRef)
                                ELSE onErrorCallbackRef
       /\ lastEffect' = [ran |-> TRUE, state |-> state, calls |-> calls,
                         navigation |-> Navigation(state)]
  /\ effectPending' = FALSE
  /\ UNCHANGED <<variantVars, cliVars, actionVars, onSubmitCallbackRef, state, isPending,
                 mounted, hostRunning, hostQueue, nextRef, executing, submitting,
                 registrations, dispatched, lastSettled, successDone>>

\* a transition whose handler is given the state cell as it is when the
\* transition starts
startTransitionCurrentState(formData, closureState) ==
  /\ transitions' = Append(transitions,
       [formData |-> formData, prevState |-> state, captured |-> closureState])
  /\ isPending' = mounted

\* startTransition(async () => { ... formAction(state, formData) ... }): the
\* handler starts at once, with the state of the closure of enhancedDispatch
startTransition(formData, closureState) ==
  /\ transitions' = Append(transitions,
       [formData |-> formData, prevState |-> closureState, captured |-> closureState])
  /\ isPending' = mounted

\* enhancedDispatch(formData), up to its await or, with no submit callback, to its end
enhancedDispatch(formData) ==
  /\ mounted
  /\ ~effectPending
  /\ dispatched < MaxSubmit
  /\ dispatched' = dispatched + 1
  /\ IF onSubmitCallbackRef = Null
     THEN /\ startTransition(formData, state)
          /\ UNCHANGED <<fired, suspended>>
     ELSE LET calls == << [slot |-> "submit", cb |-> onSubmitCallbackRef, arg |-> formData] >> IN
          /\ fired' = Fired(calls)
          /\ suspended' = Append(suspended, [formData |-> formData, state |-> state])
          /\ UNCHANGED <<transitions, isPending>>
  /\ UNCHANGED <<listVars, lastSet, resets, cliVars, actionVars, refVars, state, effectPending, mounted,
                 hostRunning, hostQueue, nextRef, executing, submitting, registrations,
                 lastEffect, lastSettled, successDone>>

Without(seq, i) == SubSeq(seq, 1, i - 1) \o SubSeq(seq, i + 1, Len(seq))

\* enhancedDispatch after its await
EnhancedDispatchResumes(i, rejected) ==
  /\ i \in 1..Len(suspended)
  /\ suspended' = Without(suspended, i)
  /\ IF rejected
     THEN UNCHANGED <<onSubmitCallbackRef, transitions, isPending>>
     ELSE /\ onSubmitCallbackRef' = Consumed(onSubmitCallbackRef)
          /\ startTransition(suspended[i].formData, suspended[i].state)
  /\ UNCHANGED <<listVars, lastSet, resets, cliVars, actionVars, onSuccessCallbackRef, onErrorCallbackRef,
                 state, effectPending, mounted, hostRunning, hostQueue, nextRef, executing,
                 submitting, registrations, fired, dispatched, lastEffect, lastSettled,
                 successDone>>

\* setState(newState): a new object makes the component render again
setState(newState) ==
  IF mounted
  THEN /\ state' = newState
       /\ effectPending' = (newState.ref # state.ref)
  ELSE UNCHANGED <<state, effectPending>>

\* const newState = await formAction(state, formData); setState(newState):
\* one of the running handlers settles; a rejection is thrown into the render
\* and takes the component down
TransitionSettles(i, outcome) ==
  /\ i \in 1..Len(transitions)
  /\ ~effectPending
  /\ LET t == transitions[i]
         others == Without(transitions, i)
         result == createAction("login", t.prevState, t.formData, outcome, nextRef)
     IN  /\ transitions' = others
         /\ IF result.kind = "resolved"
            THEN /\ setState(result.value)
                 /\ lastSet' = [by |-> "formAction", value |-> result.value]
                 /\ isPending' = (mounted /\ others # <<>>)
                 /\ UNCHANGED mounted
            ELSE /\ mounted' = FALSE
                 /\ isPending' = FALSE
                 /\ UNCHANGED <<state, effectPending, lastSet>>
         /\ nextRef' = IF outcome.kind = "return" /\ outcome.value = t.prevState
                       THEN nextRef ELSE nextRef + 2
  /\ UNCHANGED <<listVars, suspended, resets, cliVars, actionVars, refVars, hostRunning, hostQueue,
                 executing, submitting, registrations, fired, dispatched, lastEffect,
                 lastSettled, successDone>>

\* setState(createFormActionState())
resetForm ==
  /\ mounted
  /\ ~effectPending
  /\ resets < MaxReset
  /\ resets' = resets + 1
  /\ LET fresh == createActionState("fdEmpty", NoParams, nextRef) IN
       /\ setState(fresh)
       /\ lastSet' = [by |-> "resetForm", value |-> fresh]
  /\ nextRef' = nextRef + 2
  /\ UNCHANGED <<listVars, suspended, transitions, cliVars, actionVars, refVars, isPending, mounted,
                 hostRunning, hostQueue, executing, submitting, registrations, fired,
                 dispatched, lastEffect, lastSettled, successDone>>

\* what the handler of a submission can do
FormActionOutcomes(prevState) ==
  {[kind |-> "return", value |-> prevState],
   [kind |-> "success", message |-> <<"ok">>, params |-> [redirect |-> "/x", refresh |-> TRUE],
    after |-> AfterSignal],
   [kind |-> "error", message |-> <<"Please fix the errors below">>, params |-> NoParams,
    after |-> AfterSignal],
   [kind |-> "throw", value |-> WithDigest(PlainError, JsString(NextPrefix))]}

InitExperimental ==
  /\ actionCall = Idle
  /\ lastCall = NoCall
  /\ prevFailure = NoCall
  /\ InitBinding(createActionState("fdEmpty", NoParams, 1))

NextExperimental ==
  \/ \E callback \in Callbacks : onFormSuccess(callback)
  \/ \E callback \in Callbacks : onFormError(callback)
  \/ \E callback \in Callbacks : onFormSubmit(callback)
  \/ ExperimentalEffect
  \/ \E formData \in FormDatas : enhancedDispatch(formData)
  \/ \E i \in 1..MaxSubmit, rejected \in BOOLEAN : EnhancedDispatchResumes(i, rejected)
  \/ \E i \in 1..MaxSubmit :
       /\ i \in 1..Len(transitions)
       /\ \E outcome \in FormActionOutcomes(transitions[i].prevState) :
            TransitionSettles(i, outcome)
  \/ resetForm

SpecExperimental == InitExperimental /\ [][NextExperimental]_vars

\* every running handler was given the state of the render in which its
\* dispatch was called
HandlersGetCapturedState ==
  \A i \in 1..Len(transitions) : transitions[i].prevState = transitions[i].captured

\* the state written by the handler that resolved last is the binding's state
LastResolverWins ==
  (mounted /\ lastSet.by = "formAction") => state = lastSet.value

\* resetForm puts its fresh record in the state cell, and the effect run for
\* that record calls no callback and navigates nowhere
ResetIsSilent ==
  lastSet.by = "resetForm" =>
    /\ state = lastSet.value
    /\ (lastEffect.ran /\ lastEffect.state = lastSet.value) =>
         (lastEffect.calls = <<>> /\ lastEffect.navigation = <<>>)

\* C37 as stated: each handler is given the state captured by the dispatch
\* function that started it; handlers that run at the same time were all
\* given the same previous state; the handler that resolves last decides the
\* state; and resetForm's fresh record fires no callback and no navigation
C37_ConcurrentHandlersSameState ==
  /\ HandlersGetCapturedState
  /\ \A i, j \in 1..Len(transitions) : transitions[i].prevState = transitions[j].prevState
  /\ LastResolverWins
  /\ ResetIsSilent

\* C37, amended: each handler is given the state captured by the dispatch
\* function that started it, so that handlers running at the same time were
\* given the same previous state when their dispatches were made in the same
\* render; the handler that resolves last decides the state; and resetForm's
\* fresh record fires no callback and no navigation
C37_HandlersGetCapturedState ==
  /\ HandlersGetCapturedState
  /\ \A i, j \in 1..Len(transitions) :
       transitions[i].captured = transitions[j].captured
         => transitions[i].prevState = transitions[j].prevState
  /\ LastResolverWins
  /\ ResetIsSilent

\* of two dispatches, one has resolved and written the state while the
\* handler of the other, started before that, is still running with the
\* state both were given
C37_Witness ==
  /\ dispatched = 2
  /\ Len(transitions) = 1
  /\ lastSet.by = "formAction"
  /\ state = lastSet.value
  /\ state.ref # transitions[1].prevState.ref
  /\ transitions[1].prevState = transitions[1].captured
  /\ onSuccessCallbackRef # Null

\* ------------------------------------------------------------------------
\* The accumulating-list revision of useFormAction (actions.ts, second hook)
\* ------------------------------------------------------------------------

\* a registration that replaces the list by the new callback
onFormSuccessReplace(callback) ==
  /\ mounted
  /\ registrations < MaxReg
  /\ registrations' = registrations + 1
  /\ successCallbacks' = <<callback>>
  /\ UNCHANGED <<errorCallbacks, runs, lastRun, suspended, transitions, lastSet, resets,
                 cliVars, actionVars, hostVars, refVars, executing, submitting, fired,
                 dispatched, lastEffect, lastSettled, successDone>>

\* successCallbacks.current.push(callback)
onFormSuccessPush(callback) ==
  /\ mounted
  /\ registrations < MaxReg
  /\ registrations' = registrations + 1
  /\ successCallbacks' = Append(successCallbacks, callback)
  /\ UNCHANGED <<errorCallbacks, runs, lastRun, suspended, transitions, lastSet, resets,
                 cliVars, actionVars, hostVars, refVars, executing, submitting, fired,
                 dispatched, lastEffect, lastSettled, successDone>>

\* errorCallbacks.current.push(callback)
onFormErrorPush(callback) ==
  /\ mounted
  /\ registrations < MaxReg
  /\ registrations' = registrations + 1
  /\ errorCallbacks' = Append(errorCallbacks, callback)
  /\ UNCHANGED <<successCallbacks, runs, lastRun, suspended, transitions, lastSet, resets,
                 cliVars, actionVars, hostVars, refVars, executing, submitting, fired,
                 dispatched, lastEffect, lastSettled, successDone>>

\* the list executeCallbacks walks for a state: errorCallbacks when
\* !state.success, successCallbacks otherwise
ListFor(st) == IF ~TruthyFlag(Get(st.f, "success")) THEN "error" ELSE "success"

CallbacksOf(list) == IF list = "error" THEN errorCallbacks ELSE successCallbacks

\* a run of executeCallbacks that has ended: how many callbacks it invoked
\* and how many its list held when it ended
Ended(run, invoked, rejected) ==
  [ended |-> TRUE, list |-> run.list, state |-> run.state, invoked |-> invoked,
   registered |-> Len(CallbacksOf(run.list)), rejected |-> rejected]

\* the effect on [state, router]: executeCallbacks() runs up to its first
\* await, then the navigation
ListEffect ==
  /\ mounted
  /\ effectPending
  /\ LET run == [list |-> ListFor(state), index |-> 1, state |-> state] IN
       IF CallbacksOf(run.list) = <<>>
       THEN /\ lastRun' = Ended(run, 0, FALSE)
            /\ UNCHANGED runs
       ELSE /\ runs' = Append(runs, run)
            /\ UNCHANGED lastRun
  /\ lastEffect' = [ran |-> TRUE, state |-> state, calls |-> <<>>,
                    navigation |-> Navigation(state)]
  /\ effectPending' = FALSE
  /\ UNCHANGED <<successCallbacks, errorCallbacks, suspended, transitions, lastSet, resets,
                 cliVars, actionVars, refVars, state, isPending, mounted, hostRunning,
                 hostQueue, nextRef, executing, submitting, registrations, fired, dispatched,
                 lastSettled, successDone>>

\* executeCallbacks after an await: a rejection ends the run; otherwise the
\* loop goes on to the next callback of the list as it is now, or ends
ExecuteCallbacksResumes(r, rejected) ==
  /\ r \in 1..Len(runs)
  /\ LET run == runs[r] IN
       IF rejected
       THEN /\ runs' = Without(runs, r)
            /\ lastRun' = Ended(run, run.index, TRUE)
       ELSE IF run.index < Len(CallbacksOf(run.list))
       THEN /\ runs' = [runs EXCEPT ![r].index = @ + 1]
            /\ UNCHANGED lastRun
       ELSE /\ runs' = Without(runs, r)
            /\ lastRun' = Ended(run, run.index, FALSE)
  /\ UNCHANGED <<successCallbacks, errorCallbacks, suspended, transitions, lastSet, resets,
                 cliVars, actionVars, hostVars, refVars, executing, submitting, registrations,
                 fired, dispatched, lastEffect, lastSettled, successDone>>

\* <form action={dispatch}>: the host reducer's dispatch, called directly
dispatch(formData) ==
  /\ mounted
  /\ ~effectPending
  /\ dispatched < MaxDispatch
  /\ dispatched' = dispatched + 1
  /\ HostDispatch(formData)
  /\ UNCHANGED <<variantVars, cliVars, actionVars, refVars, state, effectPending, mounted,
                 nextRef, executing, submitting, registrations, fired, lastEffect,
                 lastSettled, successDone>>

InitList ==
  /\ actionCall = Idle
  /\ lastCall = NoCall
  /\ prevFailure = NoCall
  /\ InitBinding(createActionState("fdEmpty", NoParams, 1))

NextList ==
  \/ \E callback \in Callbacks : onFormSuccessPush(callback)
  \/ \E callback \in Callbacks : onFormErrorPush(callback)
  \/ ListEffect
  \/ \E r \in 1..(MaxDispatch + 1), rejected \in BOOLEAN : ExecuteCallbacksResumes(r, rejected)
  \/ \E formData \in FormDatas : dispatch(formData)
  \/ /\ hostRunning # Idle
     /\ \E outcome \in FormActionOutcomes(hostRunning.prevState) : HandlerSettles(outcome)

SpecList == InitList /\ [][NextList]_vars

\* C38 as stated: registrations are appended and never removed, and a run of
\* executeCallbacks walks the list that matches its state (the success list
\* for a truthy state.success, the error list otherwise) in registration
\* order, one callback at a time, and has invoked every callback of the list
\* when it ends; every state change starts such a run
C38_AllCallbacksRunEveryChange ==
  /\ Len(successCallbacks) + Len(errorCallbacks) = registrations
  /\ \A r \in 1..Len(runs) :
       /\ runs[r].index \in 1..Len(CallbacksOf(runs[r].list))
       /\ runs[r].list = ListFor(runs[r].state)
  /\ lastRun.ended =>
       /\ lastRun.list = ListFor(lastRun.state)
       /\ lastRun.invoked = lastRun.registered

\* C38, amended: registrations are appended and never removed, and a run of
\* executeCallbacks walks the list that matches its state in registration
\* order, one callback at a time; it has invoked every callback of the list
\* when it ends, unless one of them rejected, which ends the run with the
\* later callbacks not invoked; every state change starts such a run
C38_CallbacksRunUntilRejection ==
  /\ Len(successCallbacks) + Len(errorCallbacks) = registrations
  /\ \A r \in 1..Len(runs) :
       /\ runs[r].index \in 1..Len(CallbacksOf(runs[r].list))
       /\ runs[r].list = ListFor(runs[r].state)
  /\ lastRun.ended =>
       /\ lastRun.list = ListFor(lastRun.state)
       /\ IF lastRun.rejected
          THEN lastRun.invoked \in 1..lastRun.registered
          ELSE lastRun.invoked = lastRun.registered

\* both success callbacks have run for one successful state, and a run for a
\* later successful state is calling them again
C38_Witness ==
  /\ dispatched = 2
  /\ Len(successCallbacks) = 2
  /\ lastRun.ended
  /\ lastRun.list = "success"
  /\ ~lastRun.rejected
  /\ lastRun.invoked = 2
  /\ Len(runs) = 1
  /\ runs[1].list = "success"
  /\ runs[1].state.ref # lastRun.state.ref

====
